---- MODULE Spec2Model ----
(***************************************************************************)
(* A model of the event-routing core of wag's gui module:                  *)
(*   src/src/gui/layer_stack.rs  LayerStack (push/remove/on_event)         *)
(*   src/src/gui/button.rs       Button, SimpleButtonSkin                  *)
(*   src/src/gui/surface.rs      Surface                                   *)
(*   src/src/gui/background.rs   Background, its keeper, tags and task     *)
(* EventStreams (crate async_event_streams) and attach/detach (gui/mod.rs) *)
(* are not part of the sources at hand; they are modelled from sections    *)
(* 4.2 and 4.3 of the specification.                                       *)
(***************************************************************************)
EXTENDS Integers, Sequences, FiniteSets, TLC

\* ------------------------------------------------------------------ bounds
NumPanels == 3      \* panels that exist and can be pushed
MaxLayers == 3      \* longest layer list explored
NumSubs   == 2      \* subscriber streams per event source
MaxQueue  == 1      \* queued, not yet read events per subscriber
InitLayers == 2     \* layers a LayerStack is built with
NumTasks  == 2      \* tasks that call on_event on a Button or a Surface
MaxCalls  == 3      \* on_event calls made on a Button or a Surface
MaxDepth  == 2      \* on_event calls of a LayerStack suspended in its own layers

Panels == 1..NumPanels
Subs   == 1..NumSubs
Tasks  == 1..NumTasks
Sizes  == {50, 75}

\* ------------------------------------------------------------ PanelEvent
Resized(size) == <<"Resized", size>>
MouseInput(in_slot, state, button) == <<"MouseInput", in_slot, state, button>>
OtherEvent == <<"Other">>
NoEvent == <<"None">>
kind(e) == e[1]

\* The events fed to the LayerStack: its routing reads only the kind.
StackEvents == {Resized(50), MouseInput(TRUE, "Pressed", "Left"), OtherEvent}

VARIABLES
    layers,      \* LayerStack.core.layers: Vec<Arc<dyn Panel>>
    attached,    \* children of LayerStack.container
    last,        \* the last push_panel / remove_panel call and what it returned
    ls_pc,       \* position of the on_event call on the LayerStack
    ls_event,    \* its event
    ls_todo,     \* the layers the dispatch loop still has to visit
    ls_log,      \* what the call did so far: resize, layer calls, emission
    ls_routing,  \* what translate_event returned
    ls_result,   \* what the call returned
    ls_streams,  \* live subscriber streams of LayerStack.panel_events
    ls_queue,    \* their queues
    ls_pre,      \* subscriber streams that existed when the call started
    ls_recv,     \* subscriber streams the call's send_event enqueued to
    ls_regs,     \* subscriber streams live at the moment of send_event
    ls_outer,    \* the on_event calls suspended in a layer that called on_event again
    ls_readers,  \* read guards held on LayerStack.core
    skin_streams,\* live subscriber streams of SimpleButtonSkin.panel_events
    skin_queue,  \* their queues
    skin_pre     \* those that existed when the skin's on_event was entered

stackVars == <<layers, attached, last, ls_pc, ls_event, ls_todo, ls_log, ls_routing, ls_result,
               ls_streams, ls_queue, ls_pre, ls_recv, ls_regs, ls_outer, ls_readers>>

skinVars == <<skin_streams, skin_queue, skin_pre>>

VARIABLES
    bt_pressed,  \* Button.core.pressed
    bt_writer,   \* the task holding the write lock of Button.core, 0 for none
    bt_pc,       \* position of each task's on_event call on the Button
    bt_ev,       \* its PanelEvent
    bt_be,       \* the ButtonEvent of the transition it makes
    bt_res,      \* what its last call returned
    bt_inputs,   \* the PanelEvents given to on_event, in call order
    bt_out,      \* what was sent on button_events, in order
    bt_overlap,  \* whether two calls were ever in progress at once
    bt_skin_err, \* whether the skin ever returned an error
    bt_sent,     \* what each task's call sent so far, in order
    bt_fail,     \* the handler of the skin that failed the call: "panel", "button" or "none"
    bt_wrote,    \* whether the call wrote Button.core.pressed
    bt_waits     \* the call that the skin's handler awaited by each task made, 0 for none

buttonVars == <<bt_pressed, bt_writer, bt_pc, bt_ev, bt_be, bt_res, bt_inputs, bt_out,
                bt_overlap, bt_skin_err, bt_sent, bt_fail, bt_wrote, bt_waits>>

VARIABLES
    sf_pc,         \* position of each task's on_event call on the Surface
    sf_ev,         \* its PanelEvent
    sf_res,        \* what its last call returned
    sf_sent,       \* whether the call sent its event on panel_events
    sf_queue,      \* queue of the one subscriber stream of surface_events
    sf_ops,        \* the calls made on surface_events, in order
    sf_hist,       \* the on_event calls that returned, with what they returned
    sf_calls,      \* the number of on_event calls made
    sf_overlap,    \* whether two calls were ever in progress at once
    sf_last_clear  \* the size of the Resized whose clear() ran last, 0 for none

surfaceVars == <<sf_pc, sf_ev, sf_res, sf_sent, sf_queue, sf_ops, sf_hist, sf_calls,
                 sf_overlap, sf_last_clear>>

VARIABLES
    kp_alive,    \* whether the BackgroundKeeper (the Keeper<Background>) exists
    kp_color,    \* Background.color, 0 once the Background is destroyed
    kp_size,     \* the size of Background.shape, 0 once it is destroyed
    tg_pc,       \* position of each task's call through a BackgroundTag
    tg_op,       \* the call: color, set_color(c) or set_size(s)
    tg_res,      \* what the call returned
    tg_ran,      \* whether the call's closure ran on the Background
    kp_calls,    \* the number of calls made through tags
    tg_after,    \* whether the call returned after the keeper was dropped
    kp_pending   \* the tasks whose calls were pending when the keeper was dropped

keeperVars == <<kp_alive, kp_color, kp_size, tg_pc, tg_op, tg_res, tg_ran, kp_calls, tg_after,
                kp_pending>>

VARIABLES
    pn_addr,     \* the address of each live panel's `id: Arc<()>`, 0 for a panel not alive
    pn_minted    \* the ids handed out so far: <<panel, id>> for every panel constructed

panelVars == <<pn_addr, pn_minted>>

VARIABLES
    rs_pc,       \* position of the resize handler task of the BackgroundKeeper
    rs_slot,     \* whether the slot exists
    rs_sub,      \* whether the stream of the handler's loop iteration exists
    rs_queue,    \* its queue: the emissions not yet read, by their number
    rs_emitted,  \* the sizes emitted on the slot's resize stream, in order
    rs_applied,  \* the emissions passed to set_size, by their number, in order
    rs_lost,     \* the emissions no stream received or that a stream was dropped with
    rs_early     \* the number of emissions made before the handler was first polled

resizeVars == <<rs_pc, rs_slot, rs_sub, rs_queue, rs_emitted, rs_applied, rs_lost, rs_early>>

vars == <<stackVars, skinVars, buttonVars, surfaceVars, keeperVars, panelVars, resizeVars>>

\* ------------------------------------------------------------- helpers
RemoveAt(s, i) == SubSeq(s, 1, i - 1) \o SubSeq(s, i + 1, Len(s))
Range(s) == {s[i] : i \in 1..Len(s)}

\* The addresses the allocator hands out.
Addrs == 1..NumPanels

\* Panel::id: `Arc::as_ptr(&self.id) as usize`, the address of the panel's own
\* Arc<()>.
id(p) == pn_addr[p]

\* Iterator::position(|v| v.id() == panel.id()): first match, 0 for None.
position(ls, p) ==
    IF \E i \in 1..Len(ls) : id(ls[i]) = id(p)
    THEN CHOOSE i \in 1..Len(ls) :
            /\ id(ls[i]) = id(p)
            /\ \A j \in 1..(i - 1) : id(ls[j]) # id(p)
    ELSE 0

\* gui::attach / gui::detach on the container's children.
attach(children, p) == children \cup {p}
detach(children, p) == children \ {p}

\* EventStreams::send_event: the event goes to the queue of every live stream.
send_event(queue, streams, e) ==
    [s \in Subs |-> IF s \in streams THEN Append(queue[s], e) ELSE queue[s]]

\* EventStreams::post_event on a source with one stream: the event is enqueued.
post_event(q, e) == Append(q, e)

\* EventStreams::clear on a source with one stream: what is queued is dropped.
clear(q) == <<>>

\* EventStreams::create_event_stream: a fresh, empty subscriber queue.
create_event_stream(queue, s) == [queue EXCEPT ![s] = <<>>]

\* A routing that took the other end of the list for the top layer.
translate_event_to_top_layer_last(ls) == IF ls = <<>> THEN <<>> ELSE <<ls[Len(ls)]>>

\* A loop that went on after a layer's error.
after_layer_ignoring(res, todo) == Tail(todo)

\* An on_event that dropped the `?` and sent the event whatever the routing returned.
emits_after_any(routing) == TRUE

\* A removal by Vec::swap_remove: the last layer takes the removed one's place.
remove_swap(ls, index) ==
    IF index = Len(ls)
    THEN SubSeq(ls, 1, Len(ls) - 1)
    ELSE [k \in 1..(Len(ls) - 1) |-> IF k = index THEN ls[Len(ls)] ELSE ls[k]]

\* ---------------------------------------------------------- LayerStack
\* Vec::push in push_panel.
push(ls, p) == Append(ls, p)

\* Vec::remove(index) in remove_panel.
remove(ls, index) == RemoveAt(ls, index)

\* A layers() that handed its read guard out with the list.
layers_guards_kept(readers) == readers + 1

\* LayerStack::layers: `self.core.read().await.layers.clone()`; the read guard is
\* a temporary of the function, dropped as the clone is returned. The guards held
\* after the call.
layers_guards(readers) == readers

\* translate_event_to_top_layer: the layers it calls.
translate_event_to_top_layer(ls) == IF ls = <<>> THEN <<>> ELSE <<Head(ls)>>

\* translate_event_to_all_layers: the layers it calls, in order.
translate_event_to_all_layers(ls) == ls

\* translate_event: the match on the event's kind.
translate_event(e, ls) ==
    CASE kind(e) = "Resized"    -> translate_event_to_all_layers(ls)
      [] kind(e) = "MouseInput" -> translate_event_to_top_layer(ls)
      [] OTHER                  -> translate_event_to_all_layers(ls)

\* `item.on_event_ref(..).await?` in the loop: an error leaves the loop.
after_layer(res, todo) == IF res = "Err" THEN <<>> ELSE Tail(todo)

\* `self.translate_event(..).await?` in on_event: send_event runs only after Ok.
emits_after(routing) == routing = "Ok"

NoOp == [op |-> "none", panel |-> 0, res |-> "Ok", before |-> <<>>, att |-> {}, again |-> FALSE]

\* Whether a call of op on p repeats the call made just before it.
Again(op, p) == last.op = op /\ last.panel = p

\* push_panel and remove_panel take &mut self: no on_event call is in flight.
Quiet == ls_pc \in {"idle", "done"} /\ ls_outer = <<>>

ResetCall ==
    /\ ls_pc' = "idle"
    /\ ls_event' = NoEvent
    /\ ls_todo' = <<>>
    /\ ls_log' = <<>>
    /\ ls_routing' = "none"
    /\ ls_result' = "none"
    /\ ls_pre' = {}
    /\ ls_recv' = {}
    /\ ls_regs' = {}

\* LayerStack::push_panel, attach succeeding.
PushPanel(p) ==
    /\ Quiet
    /\ Len(layers) < MaxLayers
    /\ attached' = attach(attached, p)
    /\ layers' = push(layers, p)
    /\ last' = [op |-> "push", panel |-> p, res |-> "Ok", before |-> layers, att |-> attached,
                again |-> Again("push", p)]
    /\ ResetCall
    /\ UNCHANGED <<ls_streams, ls_queue, ls_outer, ls_readers>>

\* A push_panel that put the panel in the list before attaching it.
PushPanelFails_pushed(p) ==
    /\ ls_pc \in {"idle", "done"} /\ ls_outer = <<>>
    /\ Len(layers) < MaxLayers
    /\ layers' = Append(layers, p)
    /\ last' = [op |-> "push", panel |-> p, res |-> "Err", before |-> layers, att |-> attached,
                again |-> (last.op = "push" /\ last.panel = p)]
    /\ ls_pc' = "idle" /\ ls_event' = <<"None">> /\ ls_todo' = <<>> /\ ls_log' = <<>>
    /\ ls_routing' = "none" /\ ls_result' = "none"
    /\ ls_pre' = {} /\ ls_recv' = {} /\ ls_regs' = {}
    /\ UNCHANGED <<attached, ls_streams, ls_queue, ls_outer, ls_readers>>

\* LayerStack::push_panel, attach failing: `attach(..)?` returns the error.
PushPanelFails(p) ==
    /\ Quiet
    /\ last' = [op |-> "push", panel |-> p, res |-> "Err", before |-> layers, att |-> attached,
                again |-> Again("push", p)]
    /\ ResetCall
    /\ UNCHANGED <<layers, attached, ls_streams, ls_queue, ls_outer, ls_readers>>

\* LayerStack::remove_panel, the panel found and detached.
RemovePanel(p) ==
    /\ Quiet
    /\ position(layers, p) # 0
    /\ attached' = detach(attached, p)
    /\ layers' = remove(layers, position(layers, p))
    /\ last' = [op |-> "remove", panel |-> p, res |-> "Ok", before |-> layers, att |-> attached,
                again |-> Again("remove", p)]
    /\ ResetCall
    /\ UNCHANGED <<ls_streams, ls_queue, ls_outer, ls_readers>>

\* LayerStack::remove_panel, the panel found and `detach(..)?` failing.
RemovePanelFails(p) ==
    /\ Quiet
    /\ position(layers, p) # 0
    /\ last' = [op |-> "remove", panel |-> p, res |-> "Err", before |-> layers, att |-> attached,
                again |-> Again("remove", p)]
    /\ ResetCall
    /\ UNCHANGED <<layers, attached, ls_streams, ls_queue, ls_outer, ls_readers>>

\* A remove_panel that reported the missing panel as an error (Error::BadIndex).
RemovePanelAbsent_err(p) ==
    /\ ls_pc \in {"idle", "done"}
    /\ \A i \in 1..Len(layers) : id(layers[i]) # id(p)
    /\ last' = [op |-> "remove", panel |-> p, res |-> "Err", before |-> layers, att |-> attached,
                again |-> (last.op = "remove" /\ last.panel = p)]
    /\ ls_pc' = "idle" /\ ls_event' = <<"None">> /\ ls_todo' = <<>> /\ ls_log' = <<>>
    /\ ls_routing' = "none" /\ ls_result' = "none"
    /\ ls_pre' = {} /\ ls_recv' = {} /\ ls_regs' = {}
    /\ UNCHANGED <<layers, attached, ls_streams, ls_queue, ls_outer, ls_readers>>

\* LayerStack::remove_panel, no layer with the panel's id.
RemovePanelAbsent(p) ==
    /\ Quiet
    /\ position(layers, p) = 0
    /\ last' = [op |-> "remove", panel |-> p, res |-> "Ok", before |-> layers, att |-> attached,
                again |-> Again("remove", p)]
    /\ ResetCall
    /\ UNCHANGED <<layers, attached, ls_streams, ls_queue, ls_outer, ls_readers>>

\* The LayerStack is dropped. It has no Drop of its own: its fields are dropped,
\* the Vec of layers and the stack's reference to the container, and detach is
\* not called. A container that a parent visual still holds (kept) keeps its
\* children; one that nothing else holds is destroyed and lets them go.
DropStack(kept) ==
    /\ Quiet
    /\ ls_pc' = "dropped"
    /\ layers' = <<>>
    /\ attached' = IF kept THEN attached ELSE {}
    /\ last' = [op |-> "drop", panel |-> 0, res |-> "Ok", before |-> layers, att |-> attached,
                again |-> FALSE]
    /\ ls_event' = NoEvent
    /\ ls_todo' = <<>>
    /\ ls_log' = <<>>
    /\ ls_routing' = "none"
    /\ ls_result' = "none"
    /\ ls_pre' = {}
    /\ ls_recv' = {}
    /\ ls_regs' = {}
    /\ UNCHANGED <<ls_streams, ls_queue, ls_outer, ls_readers>>

\* on_event is entered (LayerStack's, and SimpleButtonSkin's which forwards to it).
OnEvent(e) ==
    /\ Quiet
    /\ ls_pc' = "translate"
    /\ ls_event' = e
    /\ ls_todo' = <<>>
    /\ ls_log' = <<>>
    /\ ls_routing' = "none"
    /\ ls_result' = "none"
    /\ ls_pre' = ls_streams
    /\ ls_recv' = {}
    /\ ls_regs' = {}
    /\ last' = NoOp
    /\ UNCHANGED <<layers, attached, ls_streams, ls_queue, ls_outer, ls_readers>>

\* translate_event: container.SetSize for Resized, then the snapshot of the layers
\* the event goes to; with none to call, the routing is over and Ok.
Translate ==
    /\ ls_pc = "translate"
    /\ ls_readers' = layers_guards(ls_readers)
    /\ ls_todo' = translate_event(ls_event, layers)
    /\ ls_log' = IF kind(ls_event) = "Resized" THEN <<<<"resize", "Ok">>>> ELSE <<>>
    /\ IF ls_todo' = <<>>
       THEN ls_pc' = "routed" /\ ls_routing' = "Ok"
       ELSE ls_pc' = "dispatch" /\ ls_routing' = ls_routing
    /\ UNCHANGED <<layers, attached, last, ls_event, ls_result, ls_streams, ls_queue,
                   ls_pre, ls_recv, ls_regs, ls_outer>>

\* translate_event: `self.container.SetSize(*size)?` failing.
TranslateResizeFails ==
    /\ ls_pc = "translate"
    /\ kind(ls_event) = "Resized"
    /\ ls_pc' = "routed"
    /\ ls_routing' = "Err"
    /\ ls_log' = <<<<"resize", "Err">>>>
    /\ UNCHANGED <<layers, attached, last, ls_event, ls_todo, ls_result, ls_streams,
                   ls_queue, ls_pre, ls_recv, ls_regs, ls_outer, ls_readers>>

\* One iteration of the dispatch loop: the layer's on_event_ref returns res.
Deliver(res) ==
    /\ ls_pc = "dispatch"
    /\ ls_todo # <<>>
    /\ ls_log' = Append(ls_log, <<"call", Head(ls_todo), res>>)
    /\ ls_todo' = after_layer(res, ls_todo)
    /\ IF ls_todo' = <<>>
       THEN ls_pc' = "routed" /\ ls_routing' = res
       ELSE ls_pc' = "dispatch" /\ ls_routing' = ls_routing
    /\ UNCHANGED <<layers, attached, last, ls_event, ls_result, ls_streams, ls_queue,
                   ls_pre, ls_recv, ls_regs, ls_outer, ls_readers>>

\* send_event waits for room in every live subscriber's queue.
Room(queue, streams) == \A s \in streams : Len(queue[s]) < MaxQueue

\* An on_event that took a send nobody received for an error, as a channel's send
\* reports it, and returned it with `?`.
Emit_err_without_receiver ==
    /\ ls_pc = "routed"
    /\ ls_routing = "Ok"
    /\ \A s \in ls_streams : Len(ls_queue[s]) < MaxQueue
    /\ ls_queue' = [s \in Subs |-> IF s \in ls_streams THEN Append(ls_queue[s], ls_event)
                                                         ELSE ls_queue[s]]
    /\ ls_regs' = ls_streams
    /\ ls_recv' = ls_streams
    /\ ls_log' = Append(ls_log, <<"emit">>)
    /\ ls_pc' = "done"
    /\ ls_result' = IF ls_streams = {} THEN "Err" ELSE "Ok"
    /\ UNCHANGED <<layers, attached, last, ls_event, ls_todo, ls_routing, ls_streams,
                   ls_pre, ls_outer, ls_readers>>

\* on_event after the routing: panel_events.send_event(..).await; Ok(()).
Emit ==
    /\ ls_pc = "routed"
    /\ emits_after(ls_routing)
    /\ Room(ls_queue, ls_streams)
    /\ ls_queue' = send_event(ls_queue, ls_streams, ls_event)
    /\ ls_regs' = ls_streams
    /\ ls_recv' = {s \in Subs : ls_queue'[s] = Append(ls_queue[s], ls_event)}
    /\ ls_log' = Append(ls_log, <<"emit">>)
    /\ ls_pc' = "done"
    /\ ls_result' = "Ok"
    /\ UNCHANGED <<layers, attached, last, ls_event, ls_todo, ls_routing, ls_streams,
                   ls_pre, ls_outer, ls_readers>>

\* on_event after the routing failed: `?` returns the error.
ReturnErr ==
    /\ ls_pc = "routed"
    /\ ~emits_after(ls_routing)
    /\ ls_pc' = "done"
    /\ ls_result' = ls_routing
    /\ UNCHANGED <<layers, attached, last, ls_event, ls_todo, ls_log, ls_routing,
                   ls_streams, ls_queue, ls_pre, ls_recv, ls_regs, ls_outer, ls_readers>>

\* LayerStack::event_stream: a new subscriber stream of panel_events.
EventStream(s) ==
    /\ s \notin ls_streams
    /\ ls_streams' = ls_streams \cup {s}
    /\ ls_queue' = create_event_stream(ls_queue, s)
    /\ UNCHANGED <<layers, attached, last, ls_pc, ls_event, ls_todo, ls_log, ls_routing,
                   ls_result, ls_pre, ls_recv, ls_regs, ls_outer, ls_readers>>

\* A subscriber takes the next event off its stream.
StreamNext(s) ==
    /\ s \in ls_streams
    /\ ls_queue[s] # <<>>
    /\ ls_queue' = [ls_queue EXCEPT ![s] = Tail(@)]
    /\ UNCHANGED <<layers, attached, last, ls_pc, ls_event, ls_todo, ls_log, ls_routing,
                   ls_result, ls_streams, ls_pre, ls_recv, ls_regs, ls_outer, ls_readers>>

\* A layer's handler, awaited by the dispatch loop, calls on_event(e) on the
\* LayerStack it is a layer of: the call in progress waits for the new one.
Reenter(e) ==
    /\ ls_pc = "dispatch"
    /\ Len(ls_outer) < MaxDepth
    /\ ls_outer' = Append(ls_outer, [event |-> ls_event, todo |-> ls_todo, log |-> ls_log])
    /\ ls_pc' = "translate"
    /\ ls_event' = e
    /\ ls_todo' = <<>>
    /\ ls_log' = <<>>
    /\ ls_routing' = "none"
    /\ ls_result' = "none"
    /\ UNCHANGED <<layers, attached, last, ls_streams, ls_queue, ls_pre, ls_recv, ls_regs,
                   ls_readers>>

\* The inner on_event returned: the layer's handler that called it goes on.
ReturnToLayer ==
    /\ ls_pc = "done"
    /\ ls_outer # <<>>
    /\ ls_outer' = SubSeq(ls_outer, 1, Len(ls_outer) - 1)
    /\ ls_pc' = "dispatch"
    /\ ls_event' = ls_outer[Len(ls_outer)].event
    /\ ls_todo' = ls_outer[Len(ls_outer)].todo
    /\ ls_log' = ls_outer[Len(ls_outer)].log
    /\ ls_routing' = "none"
    /\ ls_result' = "none"
    /\ UNCHANGED <<layers, attached, last, ls_streams, ls_queue, ls_pre, ls_recv, ls_regs,
                   ls_readers>>

\* A subscriber drops its stream: the stream's queue goes with it.
DropStream(s) ==
    /\ s \in ls_streams
    /\ ls_streams' = ls_streams \ {s}
    /\ ls_queue' = [ls_queue EXCEPT ![s] = <<>>]
    /\ UNCHANGED <<layers, attached, last, ls_pc, ls_event, ls_todo, ls_log, ls_routing,
                   ls_result, ls_pre, ls_recv, ls_regs, ls_outer, ls_readers>>

\* SimpleButtonSkin::on_event: `self.layer_stack.on_event(event, source).await`.
SkinOnEvent(e) ==
    /\ OnEvent(e)
    /\ skin_pre' = skin_streams
    /\ UNCHANGED <<skin_streams, skin_queue, buttonVars, surfaceVars, keeperVars,
                   panelVars, resizeVars>>

\* SimpleButtonSkin::event_stream: a new subscriber stream of the skin's own
\* panel_events, to which no code of the skin sends.
SkinEventStream(s) ==
    /\ s \notin skin_streams
    /\ skin_streams' = skin_streams \cup {s}
    /\ skin_queue' = create_event_stream(skin_queue, s)
    /\ UNCHANGED <<stackVars, skin_pre, buttonVars, surfaceVars, keeperVars, panelVars, resizeVars>>

Live(p) == pn_addr[p] # 0

\* A panel is constructed: `id: Arc::new(())` is allocated at an address no live
\* allocation has; which one is the allocator's choice.
Construct(p, a) ==
    /\ ~Live(p)
    /\ \A x \in pn_minted : x[1] # p
    /\ \A q \in Panels : pn_addr[q] # a
    /\ pn_addr' = [pn_addr EXCEPT ![p] = a]
    /\ pn_minted' = pn_minted \cup {<<p, a>>}
    /\ UNCHANGED <<stackVars, skinVars, buttonVars, surfaceVars, keeperVars, resizeVars>>

\* The last Arc of a panel is dropped: its Arc<()> is freed. A panel in the layer
\* list is held by the list.
Destroy(p) ==
    /\ Live(p)
    /\ \A i \in 1..Len(layers) : layers[i] # p
    /\ pn_addr' = [pn_addr EXCEPT ![p] = 0]
    /\ UNCHANGED <<pn_minted, stackVars, skinVars, buttonVars, surfaceVars, keeperVars, resizeVars>>

StackStep(A) == A /\ UNCHANGED <<skinVars, buttonVars, surfaceVars, keeperVars,
                                 panelVars, resizeVars>>

\* A LayerStack its owner pushes to, removes from and sends events to.
NextStack ==
    \/ \E p \in Panels : StackStep(PushPanel(p))
    \/ \E p \in Panels : StackStep(PushPanelFails(p))
    \/ \E p \in Panels : StackStep(RemovePanel(p))
    \/ \E p \in Panels : StackStep(RemovePanelFails(p))
    \/ \E p \in Panels : StackStep(RemovePanelAbsent(p))
    \/ \E kept \in BOOLEAN : StackStep(DropStack(kept))
    \/ \E e \in StackEvents : StackStep(OnEvent(e))
    \/ StackStep(Translate)
    \/ StackStep(TranslateResizeFails)
    \/ \E res \in {"Ok", "Err"} : StackStep(Deliver(res))
    \/ StackStep(Emit)
    \/ StackStep(ReturnErr)

\* An Arc<LayerStack> built from LayerStackParams with InitLayers layers: shared,
\* so never pushed to; its observers subscribe and read while events come in.
NextShared ==
    \/ \E e \in StackEvents : StackStep(OnEvent(e))
    \/ StackStep(Translate)
    \/ StackStep(TranslateResizeFails)
    \/ \E res \in {"Ok", "Err"} : StackStep(Deliver(res))
    \/ StackStep(Emit)
    \/ StackStep(ReturnErr)
    \/ \E s \in Subs : StackStep(EventStream(s))
    \/ \E s \in Subs : StackStep(StreamNext(s))

\* The shared LayerStack with subscribers that come, read and go.
NextSubscribers ==
    \/ \E e \in StackEvents : StackStep(OnEvent(e))
    \/ StackStep(Translate)
    \/ StackStep(TranslateResizeFails)
    \/ \E res \in {"Ok", "Err"} : StackStep(Deliver(res))
    \/ StackStep(Emit)
    \/ StackStep(ReturnErr)
    \/ \E s \in Subs : StackStep(EventStream(s))
    \/ \E s \in Subs : StackStep(StreamNext(s))
    \/ \E s \in Subs : StackStep(DropStream(s))

\* The container's SetSize and the layers' handlers return, and the scheduler
\* runs an on_event that can go on.
FairStack ==
    /\ WF_vars(StackStep(Translate) \/ StackStep(TranslateResizeFails))
    /\ WF_vars(\E res \in {"Ok", "Err"} : StackStep(Deliver(res)))
    /\ WF_vars(StackStep(Emit))
    /\ WF_vars(StackStep(ReturnErr))

\* Panels constructed and destroyed while a LayerStack takes and gives up the
\* live ones.
NextIdentity ==
    \/ \E p \in Panels, a \in Addrs : Construct(p, a)
    \/ \E p \in Panels : Destroy(p)
    \/ \E p \in Panels : Live(p) /\ StackStep(PushPanel(p))
    \/ \E p \in Panels : Live(p) /\ StackStep(RemovePanel(p))
    \/ \E p \in Panels : Live(p) /\ StackStep(RemovePanelAbsent(p))

\* An Arc<LayerStack> whose layers hold it and call its on_event from their own.
NextReentry ==
    \/ \E e \in StackEvents : StackStep(OnEvent(e))
    \/ StackStep(Translate)
    \/ StackStep(TranslateResizeFails)
    \/ \E res \in {"Ok", "Err"} : StackStep(Deliver(res))
    \/ StackStep(Emit)
    \/ StackStep(ReturnErr)
    \/ \E e \in StackEvents : StackStep(Reenter(e))
    \/ StackStep(ReturnToLayer)

\* A SimpleButtonSkin: its layer_stack holds the background and the text.
NextSkin ==
    \/ \E e \in StackEvents : SkinOnEvent(e)
    \/ StackStep(Translate)
    \/ StackStep(TranslateResizeFails)
    \/ \E res \in {"Ok", "Err"} : StackStep(Deliver(res))
    \/ StackStep(Emit)
    \/ StackStep(ReturnErr)
    \/ \E s \in Subs : SkinEventStream(s)

\* The panels of a running program: each constructed, at an address of its own.
InitPanels ==
    /\ pn_addr = [p \in Panels |-> p]
    /\ pn_minted = {<<p, p>> : p \in Panels}

\* No panel constructed yet.
InitNoPanels ==
    /\ pn_addr = [p \in Panels |-> 0]
    /\ pn_minted = {}

InitSkinStreams ==
    /\ skin_streams = {}
    /\ skin_queue = [s \in Subs |-> <<>>]
    /\ skin_pre = {}

\* TryFrom<LayerStackParams>: every layer of the parameters is attached.
InitBuilt(ls) ==
    /\ layers = ls
    /\ attached = Range(ls)
    /\ last = NoOp
    /\ ls_pc = "idle"
    /\ ls_event = NoEvent
    /\ ls_todo = <<>>
    /\ ls_log = <<>>
    /\ ls_routing = "none"
    /\ ls_result = "none"
    /\ ls_streams = {}
    /\ ls_queue = [s \in Subs |-> <<>>]
    /\ ls_pre = {}
    /\ ls_recv = {}
    /\ ls_regs = {}
    /\ ls_outer = <<>>
    /\ ls_readers = 0

\* -------------------------------------------------------------- Button
\* ButtonEvent
Press == <<"Press">>
Release(in_slot) == <<"Release", in_slot>>
NoButtonEvent == <<"None">>

\* The PanelEvents fed to the Button: the left-button pointer events, a pointer
\* event of another button and an event that is no pointer event.
LeftEvents == {MouseInput(in, st, "Left") : in \in BOOLEAN, st \in {"Pressed", "Released"}}
ButtonInputs == LeftEvents \cup {MouseInput(TRUE, "Pressed", "Right"), Resized(50)}

\* The match of Button::on_event after the event went to the skin and the stream:
\* where the call goes next.
button_match(e) ==
    IF kind(e) = "MouseInput" /\ e[4] = "Left"
    THEN IF e[3] = "Pressed"
         THEN (IF e[2] THEN "press_lock" ELSE "done")
         ELSE (IF e[3] = "Released" THEN "check" ELSE "done")
    ELSE "done"

\* Core::is_pressed
is_pressed == bt_pressed

\* Core::press / Core::release: the new value of `pressed`.
press_sets == TRUE
release_sets == FALSE

InitButton ==
    /\ bt_pressed = FALSE
    /\ bt_writer = 0
    /\ bt_pc = [t \in Tasks |-> "idle"]
    /\ bt_ev = [t \in Tasks |-> NoEvent]
    /\ bt_be = [t \in Tasks |-> NoButtonEvent]
    /\ bt_res = [t \in Tasks |-> "none"]
    /\ bt_inputs = <<>>
    /\ bt_out = <<>>
    /\ bt_overlap = FALSE
    /\ bt_skin_err = FALSE
    /\ bt_sent = [t \in Tasks |-> <<>>]
    /\ bt_fail = [t \in Tasks |-> "none"]
    /\ bt_wrote = [t \in Tasks |-> FALSE]
    /\ bt_waits = [t \in Tasks |-> 0]

BtReturn(t, res) ==
    /\ bt_pc' = [bt_pc EXCEPT ![t] = "done"]
    /\ bt_res' = [bt_res EXCEPT ![t] = res]

\* Button::on_event is entered by task t.
BtOnEvent(t, e) ==
    /\ bt_pc[t] \in {"idle", "done"}
    /\ Len(bt_inputs) < MaxCalls
    /\ bt_pc' = [bt_pc EXCEPT ![t] = "enter"]
    /\ bt_ev' = [bt_ev EXCEPT ![t] = e]
    /\ bt_be' = [bt_be EXCEPT ![t] = NoButtonEvent]
    /\ bt_res' = [bt_res EXCEPT ![t] = "none"]
    /\ bt_inputs' = Append(bt_inputs, e)
    /\ bt_overlap' = (bt_overlap \/ \E u \in Tasks \ {t} : bt_pc[u] \notin {"idle", "done"})
    /\ bt_sent' = [bt_sent EXCEPT ![t] = <<>>]
    /\ bt_fail' = [bt_fail EXCEPT ![t] = "none"]
    /\ bt_wrote' = [bt_wrote EXCEPT ![t] = FALSE]
    /\ UNCHANGED <<bt_pressed, bt_writer, bt_out, bt_skin_err>>

\* `self.core.read().await.skin_panel()`: the read lock is taken and let go.
BtSkinPanel(t) ==
    /\ bt_pc[t] = "enter"
    /\ bt_writer = 0
    /\ bt_pc' = [bt_pc EXCEPT ![t] = "skin"]
    /\ UNCHANGED <<bt_pressed, bt_writer, bt_ev, bt_be, bt_res, bt_inputs, bt_out,
                   bt_overlap, bt_skin_err, bt_sent, bt_fail, bt_wrote, bt_waits>>

\* An on_event that sent the PanelEvent on before the skin had taken it.
BtSkinFails_after_send(t) ==
    /\ bt_pc[t] = "skin"
    /\ bt_pc' = [bt_pc EXCEPT ![t] = "done"]
    /\ bt_res' = [bt_res EXCEPT ![t] = "Err"]
    /\ bt_skin_err' = TRUE
    /\ bt_fail' = [bt_fail EXCEPT ![t] = "panel"]
    /\ bt_sent' = [bt_sent EXCEPT ![t] = Append(@, <<"panel", bt_ev[t]>>)]
    /\ UNCHANGED <<bt_pressed, bt_writer, bt_ev, bt_be, bt_inputs, bt_out, bt_overlap, bt_wrote>>

\* `skin.on_event_ref(event.as_ref(), ..).await?` failing.
BtSkinFails(t) ==
    /\ bt_pc[t] = "skin"
    /\ BtReturn(t, "Err")
    /\ bt_skin_err' = TRUE
    /\ bt_fail' = [bt_fail EXCEPT ![t] = "panel"]
    /\ UNCHANGED <<bt_pressed, bt_writer, bt_ev, bt_be, bt_inputs, bt_out, bt_overlap, bt_sent,
                   bt_wrote>>

\* The skin took the event: panel_events.send_event(..).await, then the match.
BtPanelSend(t) ==
    /\ bt_pc[t] = "skin"
    /\ IF button_match(bt_ev[t]) = "done"
       THEN BtReturn(t, "Ok")
       ELSE /\ bt_pc' = [bt_pc EXCEPT ![t] = button_match(bt_ev[t])]
            /\ bt_res' = bt_res
    /\ bt_sent' = [bt_sent EXCEPT ![t] = Append(@, <<"panel", bt_ev[t]>>)]
    /\ UNCHANGED <<bt_pressed, bt_writer, bt_ev, bt_be, bt_inputs, bt_out, bt_overlap,
                   bt_skin_err, bt_fail, bt_wrote>>

\* `self.core.write().await.press(..)`: the write lock, then Core::press up to
\* its first await.
BtPress(t) ==
    /\ bt_pc[t] = "press_lock"
    /\ bt_writer = 0
    /\ bt_writer' = t
    /\ bt_pressed' = press_sets
    /\ bt_be' = [bt_be EXCEPT ![t] = Press]
    /\ bt_pc' = [bt_pc EXCEPT ![t] = "core_skin"]
    /\ bt_wrote' = [bt_wrote EXCEPT ![t] = TRUE]
    /\ UNCHANGED <<bt_ev, bt_res, bt_inputs, bt_out, bt_overlap, bt_skin_err, bt_sent, bt_fail>>

\* `if self.core.read().await.is_pressed()`: the read lock is let go before the
\* body of the if runs.
BtCheck(t) ==
    /\ bt_pc[t] = "check"
    /\ bt_writer = 0
    /\ IF is_pressed
       THEN bt_pc' = [bt_pc EXCEPT ![t] = "release_lock"] /\ bt_res' = bt_res
       ELSE BtReturn(t, "Ok")
    /\ UNCHANGED <<bt_pressed, bt_writer, bt_ev, bt_be, bt_inputs, bt_out, bt_overlap,
                   bt_skin_err, bt_sent, bt_fail, bt_wrote>>

\* `self.core.write().await.release(*in_slot, ..)`: the write lock, then
\* Core::release up to its first await.
BtRelease(t) ==
    /\ bt_pc[t] = "release_lock"
    /\ bt_writer = 0
    /\ bt_writer' = t
    /\ bt_pressed' = release_sets
    /\ bt_be' = [bt_be EXCEPT ![t] = Release(bt_ev[t][2])]
    /\ bt_pc' = [bt_pc EXCEPT ![t] = "core_skin"]
    /\ bt_wrote' = [bt_wrote EXCEPT ![t] = TRUE]
    /\ UNCHANGED <<bt_ev, bt_res, bt_inputs, bt_out, bt_overlap, bt_skin_err, bt_sent, bt_fail>>

\* Core::press / Core::release: `self.skin.on_event_ref(&event, ..).await?` failing;
\* the write guard is dropped as the error is returned.
BtCoreSkinFails(t) ==
    /\ bt_pc[t] = "core_skin"
    /\ bt_waits[t] = 0
    /\ bt_writer' = 0
    /\ BtReturn(t, "Err")
    /\ bt_skin_err' = TRUE
    /\ bt_fail' = [bt_fail EXCEPT ![t] = "button"]
    /\ UNCHANGED <<bt_pressed, bt_ev, bt_be, bt_inputs, bt_out, bt_overlap, bt_sent, bt_wrote>>

\* Core::press / Core::release: the skin took the ButtonEvent and
\* button_events.send_event is called; the write guard is still held.
BtCoreSend(t) ==
    /\ bt_pc[t] = "core_skin"
    /\ bt_waits[t] = 0
    /\ bt_out' = Append(bt_out, <<"button", bt_be[t]>>)
    /\ bt_pc' = [bt_pc EXCEPT ![t] = "core_sent"]
    /\ bt_sent' = [bt_sent EXCEPT ![t] = Append(@, <<"button", bt_be[t]>>)]
    /\ UNCHANGED <<bt_pressed, bt_writer, bt_ev, bt_be, bt_res, bt_inputs, bt_overlap,
                   bt_skin_err, bt_fail, bt_wrote>>

\* send_event's await is over: Ok(()), the write guard is dropped, on_event returns.
BtCoreReturn(t) ==
    /\ bt_pc[t] = "core_sent"
    /\ bt_writer' = 0
    /\ BtReturn(t, "Ok")
    /\ UNCHANGED <<bt_pressed, bt_ev, bt_be, bt_inputs, bt_out, bt_overlap, bt_skin_err,
                   bt_sent, bt_fail, bt_wrote>>

\* The skin's ButtonEvent handler, awaited by task t inside Core::press or
\* Core::release, calls on_event(e) on the Button: the call runs as u, and the
\* handler returns to t only after that call has (bt_waits[t] stays u till then).
BtReenter(t, u, e) ==
    /\ bt_pc[t] = "core_skin"
    /\ bt_waits[t] = 0
    /\ u # t
    /\ BtOnEvent(u, e)
    /\ bt_waits' = [bt_waits EXCEPT ![t] = u]
    /\ UNCHANGED <<stackVars, skinVars, surfaceVars, keeperVars, panelVars, resizeVars>>

ButtonStep(A) ==
    A /\ UNCHANGED <<stackVars, skinVars, surfaceVars, keeperVars, panelVars, resizeVars, bt_waits>>

NextButton ==
    \/ \E t \in Tasks, e \in ButtonInputs : ButtonStep(BtOnEvent(t, e))
    \/ \E t \in Tasks : ButtonStep(BtSkinPanel(t))
    \/ \E t \in Tasks : ButtonStep(BtSkinFails(t))
    \/ \E t \in Tasks : ButtonStep(BtPanelSend(t))
    \/ \E t \in Tasks : ButtonStep(BtPress(t))
    \/ \E t \in Tasks : ButtonStep(BtCheck(t))
    \/ \E t \in Tasks : ButtonStep(BtRelease(t))
    \/ \E t \in Tasks : ButtonStep(BtCoreSkinFails(t))
    \/ \E t \in Tasks : ButtonStep(BtCoreSend(t))
    \/ \E t \in Tasks : ButtonStep(BtCoreReturn(t))

\* One input for each way button_match goes: to the press, to the check before a
\* release, and past both.
OrderInputs ==
    {MouseInput(TRUE, "Pressed", "Left"), MouseInput(TRUE, "Released", "Left"), Resized(50)}

\* The Button fed one input of each kind.
NextButtonOrder ==
    \/ \E t \in Tasks, e \in OrderInputs : ButtonStep(BtOnEvent(t, e))
    \/ \E t \in Tasks : ButtonStep(BtSkinPanel(t))
    \/ \E t \in Tasks : ButtonStep(BtSkinFails(t))
    \/ \E t \in Tasks : ButtonStep(BtPanelSend(t))
    \/ \E t \in Tasks : ButtonStep(BtPress(t))
    \/ \E t \in Tasks : ButtonStep(BtCheck(t))
    \/ \E t \in Tasks : ButtonStep(BtRelease(t))
    \/ \E t \in Tasks : ButtonStep(BtCoreSkinFails(t))
    \/ \E t \in Tasks : ButtonStep(BtCoreSend(t))
    \/ \E t \in Tasks : ButtonStep(BtCoreReturn(t))

\* The Button with a skin whose ButtonEvent handler calls the Button's on_event.
NextButtonReentry ==
    \/ \E t \in Tasks, e \in OrderInputs : ButtonStep(BtOnEvent(t, e))
    \/ \E t \in Tasks : ButtonStep(BtSkinPanel(t))
    \/ \E t \in Tasks : ButtonStep(BtSkinFails(t))
    \/ \E t \in Tasks : ButtonStep(BtPanelSend(t))
    \/ \E t \in Tasks : ButtonStep(BtPress(t))
    \/ \E t \in Tasks : ButtonStep(BtCheck(t))
    \/ \E t \in Tasks : ButtonStep(BtRelease(t))
    \/ \E t \in Tasks : ButtonStep(BtCoreSkinFails(t))
    \/ \E t \in Tasks : ButtonStep(BtCoreSend(t))
    \/ \E t \in Tasks : ButtonStep(BtCoreReturn(t))
    \/ \E t \in Tasks, u \in Tasks, e \in OrderInputs : BtReenter(t, u, e)

\* ------------------------------------------------------------- Surface
\* SurfaceEvent
Redraw(size) == <<"Redraw", size>>

\* The PanelEvents fed to the Surface.
SurfaceInputs == {Resized(s) : s \in Sizes} \cup {OtherEvent}

InitSurface ==
    /\ sf_pc = [t \in Tasks |-> "idle"]
    /\ sf_ev = [t \in Tasks |-> NoEvent]
    /\ sf_res = [t \in Tasks |-> "none"]
    /\ sf_sent = [t \in Tasks |-> FALSE]
    /\ sf_queue = <<>>
    /\ sf_ops = <<>>
    /\ sf_hist = <<>>
    /\ sf_calls = 0
    /\ sf_overlap = FALSE
    /\ sf_last_clear = 0

SfReturn(t, res) ==
    /\ sf_pc' = [sf_pc EXCEPT ![t] = "done"]
    /\ sf_res' = [sf_res EXCEPT ![t] = res]
    /\ sf_hist' = Append(sf_hist, <<sf_ev[t], res>>)

\* Surface::on_event is entered by task t: `if let PanelEvent::Resized(size)`.
SfOnEvent(t, e) ==
    /\ sf_pc[t] \in {"idle", "done"}
    /\ sf_calls < MaxCalls
    /\ sf_calls' = sf_calls + 1
    /\ sf_pc' = [sf_pc EXCEPT ![t] = IF kind(e) = "Resized" THEN "setsize" ELSE "send"]
    /\ sf_ev' = [sf_ev EXCEPT ![t] = e]
    /\ sf_res' = [sf_res EXCEPT ![t] = "none"]
    /\ sf_sent' = [sf_sent EXCEPT ![t] = FALSE]
    /\ sf_overlap' = (sf_overlap \/ \E u \in Tasks \ {t} : sf_pc[u] \notin {"idle", "done"})
    /\ UNCHANGED <<sf_queue, sf_ops, sf_hist, sf_last_clear>>

\* `self.sprite_visual.SetSize(*size)?`
SfSetSize(t) ==
    /\ sf_pc[t] = "setsize"
    /\ sf_pc' = [sf_pc EXCEPT ![t] = "clear"]
    /\ UNCHANGED <<sf_ev, sf_res, sf_sent, sf_queue, sf_ops, sf_hist, sf_calls, sf_overlap,
                   sf_last_clear>>

\* `self.sprite_visual.SetSize(*size)?` failing.
SfSetSizeFails(t) ==
    /\ sf_pc[t] = "setsize"
    /\ SfReturn(t, "Err")
    /\ UNCHANGED <<sf_ev, sf_sent, sf_queue, sf_ops, sf_calls, sf_overlap, sf_last_clear>>

\* A Resized handler that did not clear the queue before posting.
SfClear_missing(t) ==
    /\ sf_pc[t] = "clear"
    /\ sf_pc' = [sf_pc EXCEPT ![t] = "post"]
    /\ UNCHANGED <<sf_ev, sf_res, sf_sent, sf_queue, sf_ops, sf_hist, sf_calls, sf_overlap,
                   sf_last_clear>>

\* `self.surface_events.clear()`
SfClear(t) ==
    /\ sf_pc[t] = "clear"
    /\ sf_queue' = clear(sf_queue)
    /\ sf_ops' = Append(sf_ops, <<"clear">>)
    /\ sf_last_clear' = sf_ev[t][2]
    /\ sf_pc' = [sf_pc EXCEPT ![t] = "post"]
    /\ UNCHANGED <<sf_ev, sf_res, sf_sent, sf_hist, sf_calls, sf_overlap>>

\* `self.surface_events.post_event(SurfaceEvent::Redraw(*size), None)`
SfPost(t) ==
    /\ sf_pc[t] = "post"
    /\ sf_queue' = post_event(sf_queue, Redraw(sf_ev[t][2]))
    /\ sf_ops' = Append(sf_ops, <<"post", sf_ev[t][2]>>)
    /\ sf_pc' = [sf_pc EXCEPT ![t] = "send"]
    /\ UNCHANGED <<sf_ev, sf_res, sf_sent, sf_hist, sf_calls, sf_overlap, sf_last_clear>>

\* `self.panel_events.send_event(event.into_owned(), source).await; Ok(())`
SfSend(t) ==
    /\ sf_pc[t] = "send"
    /\ sf_sent' = [sf_sent EXCEPT ![t] = TRUE]
    /\ SfReturn(t, "Ok")
    /\ UNCHANGED <<sf_ev, sf_queue, sf_ops, sf_calls, sf_overlap, sf_last_clear>>

SurfaceStep(A) == A /\ UNCHANGED <<stackVars, skinVars, buttonVars, keeperVars,
                                   panelVars, resizeVars>>

\* A Surface with one SurfaceEvent subscriber that does not read, and tasks on
\* several worker threads calling on_event.
NextSurface ==
    \/ \E t \in Tasks, e \in SurfaceInputs : SurfaceStep(SfOnEvent(t, e))
    \/ \E t \in Tasks : SurfaceStep(SfSetSize(t))
    \/ \E t \in Tasks : SurfaceStep(SfSetSizeFails(t))
    \/ \E t \in Tasks : SurfaceStep(SfClear(t))
    \/ \E t \in Tasks : SurfaceStep(SfPost(t))
    \/ \E t \in Tasks : SurfaceStep(SfSend(t))


\* ---------------------------------------------------- Background, its tags
\* The calls made through a BackgroundTag: one read, two mutations.
TagOps == {<<"color">>, <<"set_color", 2>>, <<"set_size", 75>>}
NoTagOp == <<"none">>

\* A tag call that took a destroyed cell for a success.
call_result_default(cell, closure) == IF cell = "gone" THEN <<"Ok">> ELSE closure

\* `Ok(self.0.async_call_mut(|v| ..).await??)`: the first `?` returns the error
\* of a destroyed cell, the second the error of the closure.
call_result(cell, closure) == IF cell = "gone" THEN <<"ActorGone">> ELSE closure

\* Background::set_color: the color is stored, then redraw()?.
set_color(c, redraw) == [color |-> c, res |-> IF redraw = "Ok" THEN <<"Ok">> ELSE <<"Err">>]

\* Background::set_size: shape.SetSize(size)?, then redraw()?.
set_size(old, s, backend, redraw) ==
    IF backend = "Err" THEN [size |-> old, res |-> <<"Err">>]
    ELSE [size |-> s, res |-> IF redraw = "Ok" THEN <<"Ok">> ELSE <<"Err">>]

InitKeeper ==
    /\ kp_alive = TRUE
    /\ kp_color = 1
    /\ kp_size = 50
    /\ tg_pc = [t \in Tasks |-> "idle"]
    /\ tg_op = [t \in Tasks |-> NoTagOp]
    /\ tg_res = [t \in Tasks |-> <<"none">>]
    /\ tg_ran = [t \in Tasks |-> FALSE]
    /\ kp_calls = 0
    /\ tg_after = [t \in Tasks |-> FALSE]
    /\ kp_pending = {}

\* A task calls color(), set_color(c) or set_size(s) on a BackgroundTag: the
\* closure is scheduled and waits for the cell's lock.
TagCall(t, op) ==
    /\ tg_pc[t] \in {"idle", "done"}
    /\ kp_calls < MaxCalls
    /\ kp_calls' = kp_calls + 1
    /\ tg_pc' = [tg_pc EXCEPT ![t] = "pending"]
    /\ tg_op' = [tg_op EXCEPT ![t] = op]
    /\ tg_res' = [tg_res EXCEPT ![t] = <<"none">>]
    /\ tg_ran' = [tg_ran EXCEPT ![t] = FALSE]
    /\ tg_after' = [tg_after EXCEPT ![t] = FALSE]
    /\ UNCHANGED <<kp_alive, kp_color, kp_size, kp_pending>>

TagReturn(t, res) ==
    /\ tg_pc' = [tg_pc EXCEPT ![t] = "done"]
    /\ tg_res' = [tg_res EXCEPT ![t] = res]
    /\ tg_after' = [tg_after EXCEPT ![t] = ~kp_alive]

\* The cell exists: the closure runs on the Background under the cell's lock.
TagRun(t, backend, redraw) ==
    /\ tg_pc[t] = "pending"
    /\ kp_alive
    /\ tg_ran' = [tg_ran EXCEPT ![t] = TRUE]
    /\ CASE tg_op[t][1] = "color" ->
              /\ TagReturn(t, call_result("alive", <<"Ok", kp_color>>))
              /\ UNCHANGED <<kp_color, kp_size>>
         [] tg_op[t][1] = "set_color" ->
              /\ kp_color' = set_color(tg_op[t][2], redraw).color
              /\ TagReturn(t, call_result("alive", set_color(tg_op[t][2], redraw).res))
              /\ UNCHANGED kp_size
         [] tg_op[t][1] = "set_size" ->
              /\ kp_size' = set_size(kp_size, tg_op[t][2], backend, redraw).size
              /\ TagReturn(t, call_result("alive", set_size(kp_size, tg_op[t][2], backend, redraw).res))
              /\ UNCHANGED kp_color
    /\ UNCHANGED <<kp_alive, tg_op, kp_calls, kp_pending>>

\* The cell is destroyed: the call fails, its closure is dropped unrun.
TagGone(t) ==
    /\ tg_pc[t] = "pending"
    /\ ~kp_alive
    /\ TagReturn(t, call_result("gone", <<"Ok">>))
    /\ UNCHANGED <<kp_alive, kp_color, kp_size, tg_op, tg_ran, kp_calls, kp_pending>>

\* The BackgroundKeeper is dropped, and the Background with it.
DropKeeper ==
    /\ kp_alive
    /\ kp_alive' = FALSE
    /\ kp_color' = 0
    /\ kp_size' = 0
    /\ kp_pending' = {t \in Tasks : tg_pc[t] = "pending"}
    /\ UNCHANGED <<tg_pc, tg_op, tg_res, tg_ran, kp_calls, tg_after>>

KeeperStep(A) == A /\ UNCHANGED <<stackVars, skinVars, buttonVars, surfaceVars,
                                  panelVars, resizeVars>>

\* A Background, the tasks that hold its tags and the owner that drops the keeper.
NextKeeper ==
    \/ \E t \in Tasks, op \in TagOps : KeeperStep(TagCall(t, op))
    \/ \E t \in Tasks, backend \in {"Ok", "Err"}, redraw \in {"Ok", "Err"} :
          KeeperStep(TagRun(t, backend, redraw))
    \/ \E t \in Tasks : KeeperStep(TagGone(t))
    \/ KeeperStep(DropKeeper)

\* The scheduler runs every call that can complete.
FairKeeper ==
    \A t \in Tasks :
        /\ WF_vars(KeeperStep(TagGone(t)))
        /\ WF_vars(\E backend \in {"Ok", "Err"}, redraw \in {"Ok", "Err"} :
                      KeeperStep(TagRun(t, backend, redraw)))

\* ------------------------------------- Background, its resize handler
\* BackgroundKeeper::new returned: spawn_event_handlers has spawned the handler,
\* which the executor has not polled yet.
InitResize ==
    /\ rs_pc = "spawned"
    /\ rs_slot = TRUE
    /\ rs_sub = FALSE
    /\ rs_queue = <<>>
    /\ rs_emitted = <<>>
    /\ rs_applied = <<>>
    /\ rs_lost = {}
    /\ rs_early = 0

\* The slot is resized: the size is sent on its resize stream, to the queue of
\* the subscriber stream if there is one.
SlotResize(s) ==
    /\ rs_slot
    /\ Len(rs_emitted) < MaxCalls
    /\ rs_emitted' = Append(rs_emitted, s)
    /\ rs_queue' = IF rs_sub THEN Append(rs_queue, Len(rs_emitted) + 1) ELSE rs_queue
    /\ rs_lost' = IF rs_sub THEN rs_lost ELSE rs_lost \cup {Len(rs_emitted) + 1}
    /\ UNCHANGED <<rs_pc, rs_slot, rs_sub, rs_applied, rs_early, keeperVars>>

\* The slot is destroyed: its streams end once what they hold is read.
DropSlot ==
    /\ rs_slot
    /\ rs_slot' = FALSE
    /\ UNCHANGED <<rs_pc, rs_sub, rs_queue, rs_emitted, rs_applied, rs_lost, rs_early, keeperVars>>

\* The handler is polled for the first time: the head of the loop evaluates
\* `slot.on_slot_resize()`, a new subscriber stream, and awaits its next().
RsPoll ==
    /\ rs_pc = "spawned"
    /\ rs_pc' = "next"
    /\ rs_sub' = TRUE
    /\ rs_queue' = <<>>
    /\ rs_early' = Len(rs_emitted)
    /\ UNCHANGED <<rs_slot, rs_emitted, rs_applied, rs_lost, keeperVars>>

\* `while let Some(size) = ..next().await`: the stream gives a size, and the body
\* calls `tag.set_size(size.0)`.
RsNext ==
    /\ rs_pc = "next"
    /\ rs_queue # <<>>
    /\ rs_applied' = Append(rs_applied, Head(rs_queue))
    /\ rs_queue' = Tail(rs_queue)
    /\ rs_pc' = "set_size"
    /\ UNCHANGED <<rs_slot, rs_sub, rs_emitted, rs_lost, rs_early, keeperVars>>

\* next() gives None, the slot gone and nothing left to read: the loop is left
\* and the task returns Ok(()).
RsNextNone ==
    /\ rs_pc = "next"
    /\ rs_queue = <<>>
    /\ ~rs_slot
    /\ rs_pc' = "finished"
    /\ rs_sub' = FALSE
    /\ UNCHANGED <<rs_slot, rs_queue, rs_emitted, rs_applied, rs_lost, rs_early, keeperVars>>

\* `tag.set_size(size.0).await?` on a live Background. Ok: the body ends, the
\* stream of this iteration, a temporary of the loop's head, is dropped with what
\* it holds, and the head makes a new stream and awaits its next(). Err: the
\* task returns the error (to unwrap_err) and its stream is dropped.
RsSetSize(backend, redraw) ==
    /\ rs_pc = "set_size"
    /\ kp_alive
    /\ kp_size' = set_size(kp_size, rs_emitted[rs_applied[Len(rs_applied)]], backend, redraw).size
    /\ LET res == call_result("alive",
                      set_size(kp_size, rs_emitted[rs_applied[Len(rs_applied)]], backend, redraw).res)
       IN  /\ rs_pc' = IF res = <<"Ok">> THEN "next" ELSE "failed"
           /\ rs_sub' = (res = <<"Ok">>)
    /\ rs_lost' = rs_lost \cup Range(rs_queue)
    /\ rs_queue' = <<>>
    /\ UNCHANGED <<rs_slot, rs_emitted, rs_applied, rs_early>>
    /\ UNCHANGED <<kp_alive, kp_color, tg_pc, tg_op, tg_res, tg_ran, kp_calls, tg_after, kp_pending>>

\* `tag.set_size(size.0).await?` with the keeper dropped: the task returns the
\* error of the destroyed cell.
RsSetSizeGone ==
    /\ rs_pc = "set_size"
    /\ ~kp_alive
    /\ rs_pc' = IF call_result("gone", <<"Ok">>) = <<"Ok">> THEN "next" ELSE "failed"
    /\ rs_sub' = (call_result("gone", <<"Ok">>) = <<"Ok">>)
    /\ rs_lost' = rs_lost \cup Range(rs_queue)
    /\ rs_queue' = <<>>
    /\ UNCHANGED <<rs_slot, rs_emitted, rs_applied, rs_early, keeperVars>>

ResizeStep(A) == A /\ UNCHANGED <<stackVars, skinVars, buttonVars, surfaceVars, panelVars>>

\* A Background plugged into a slot that is resized while the handler runs.
NextResize ==
    \/ \E s \in Sizes : ResizeStep(SlotResize(s))
    \/ ResizeStep(DropSlot)
    \/ ResizeStep(RsPoll)
    \/ ResizeStep(RsNext)
    \/ ResizeStep(RsNextNone)
    \/ \E backend \in {"Ok", "Err"}, redraw \in {"Ok", "Err"} :
          ResizeStep(RsSetSize(backend, redraw))
    \/ ResizeStep(RsSetSizeGone)
    \/ KeeperStep(DropKeeper)

\* The executor polls the handler whenever it can go on.
FairResize ==
    /\ WF_vars(ResizeStep(RsPoll))
    /\ WF_vars(ResizeStep(RsNext))
    /\ WF_vars(ResizeStep(RsNextNone))
    /\ WF_vars(\E backend \in {"Ok", "Err"}, redraw \in {"Ok", "Err"} :
                  ResizeStep(RsSetSize(backend, redraw)))
    /\ WF_vars(ResizeStep(RsSetSizeGone))

\* The components beside the LayerStack and the panels, as constructed.
InitOthers == InitSkinStreams /\ InitButton /\ InitSurface /\ InitKeeper /\ InitResize

Init == InitBuilt(<<>>) /\ InitOthers /\ InitPanels
Next == NextStack
Spec == Init /\ [][Next]_vars

InitShared == InitBuilt([i \in 1..InitLayers |-> i]) /\ InitOthers /\ InitPanels
SpecShared == InitShared /\ [][NextShared]_vars

\* LayerStackParams .push_panel(background) .push_panel(text): panels 1 and 2.
InitSkin == InitBuilt(<<1, 2>>) /\ InitOthers /\ InitPanels
SpecSkin == InitSkin /\ [][NextSkin]_vars

InitIdentity == InitBuilt(<<>>) /\ InitOthers /\ InitNoPanels
SpecIdentity == InitIdentity /\ [][NextIdentity]_vars

SpecSubscribers == InitShared /\ [][NextSubscribers]_vars /\ FairStack

SpecReentry == InitShared /\ [][NextReentry]_vars

SpecButton == Init /\ [][NextButton]_vars

SpecButtonOrder == Init /\ [][NextButtonOrder]_vars

SpecButtonReentry == Init /\ [][NextButtonReentry]_vars

SpecSurface == Init /\ [][NextSurface]_vars

SpecKeeper == Init /\ [][NextKeeper]_vars /\ FairKeeper

SpecResize == Init /\ [][NextResize]_vars /\ FairResize

\* ------------------------------------------------------------- claims
\* What the on_event call in progress (or just returned) did, read off its log.
Calls == SelectSeq(ls_log, LAMBDA x : x[1] = "call")
CalledPanels == [i \in 1..Len(Calls) |-> Calls[i][2]]
EmitCount == Len(SelectSeq(ls_log, LAMBDA x : x[1] = "emit"))
LayerFailed == \E i \in 1..Len(Calls) : Calls[i][3] = "Err"
ResizeFailed == \E i \in 1..Len(ls_log) : ls_log[i] = <<"resize", "Err">>
Broadcast == kind(ls_event) \in {"Resized", "Other"}
Distinct(s) == \A i, j \in 1..Len(s) : i # j => s[i] # s[j]
Ids(s) == {id(s[i]) : i \in 1..Len(s)}

\* C1: a pointer (MouseInput) event reaches exactly one layer, the first of the
\* list, exactly once, and no other layer; on an empty list no layer is called and
\* on_event returns Ok.
C1_PointerToFirstLayerOnly ==
    kind(ls_event) = "MouseInput" =>
        /\ Len(CalledPanels) <= 1
        /\ \A i \in 1..Len(CalledPanels) : layers # <<>> /\ CalledPanels[i] = layers[1]
        /\ ls_pc = "done" =>
              CalledPanels = (IF layers = <<>> THEN <<>> ELSE <<layers[1]>>)
        /\ (ls_pc = "done" /\ layers = <<>>) => ls_result = "Ok"

C1_Witness ==
    /\ ls_pc = "done"
    /\ kind(ls_event) = "MouseInput"
    /\ Len(layers) = 3
    /\ Distinct(layers)
    /\ CalledPanels = <<layers[1]>>

\* C2: the layer that receives a pointer event is the most recently pushed panel
\* still in the stack. push_panel appends, so that panel is the last of the list.
C2_PointerToMostRecentlyPushed ==
    (ls_pc = "done" /\ kind(ls_event) = "MouseInput" /\ layers # <<>>) =>
        CalledPanels = <<layers[Len(layers)]>>

\* C3 as stated: a Resized or other non-pointer event goes to the layers in list
\* order, each at most once, stopping at the first layer that fails; when no layer
\* fails every layer receives it exactly once.
C3_BroadcastAsStated ==
    Broadcast =>
        /\ Len(CalledPanels) <= Len(layers)
        /\ CalledPanels = SubSeq(layers, 1, Len(CalledPanels))
        /\ \A i \in 1..Len(Calls) : Calls[i][3] = "Err" => i = Len(Calls)
        /\ (ls_pc = "done" /\ ~LayerFailed) => CalledPanels = layers

\* C3 amended: the same, the last part holding when the container resize
\* succeeded (a failed SetSize returns before any layer is called).
C3_BroadcastInOrderFailFast ==
    Broadcast =>
        /\ Len(CalledPanels) <= Len(layers)
        /\ CalledPanels = SubSeq(layers, 1, Len(CalledPanels))
        /\ \A i \in 1..Len(Calls) : Calls[i][3] = "Err" => i = Len(Calls)
        /\ (ls_pc = "done" /\ ~LayerFailed /\ ~ResizeFailed) => CalledPanels = layers
        /\ ResizeFailed => CalledPanels = <<>>

C3_Witness ==
    /\ ls_pc = "done"
    /\ kind(ls_event) = "Resized"
    /\ Len(layers) = 3
    /\ Distinct(layers)
    /\ Calls = <<<<"call", layers[1], "Ok">>, <<"call", layers[2], "Err">>>>

\* C4: on_event re-emits the event on the stack's own stream exactly once if and
\* only if the routing succeeded: on Ok the event has been enqueued, after all
\* layer deliveries, to every subscriber registered at that moment; when the
\* routing fails nothing is emitted and the error is returned.
C4_EmitIffRouted ==
    /\ EmitCount <= 1
    /\ ls_pc # "done" => EmitCount = 0 /\ ls_recv = {}
    /\ ls_pc = "done" =>
          /\ ls_result \in {"Ok", "Err"}
          /\ ls_result = "Ok" <=> ~(ResizeFailed \/ LayerFailed)
          /\ ls_result = "Ok" <=> EmitCount = 1
          /\ ls_result = "Ok" =>
                /\ ls_log[Len(ls_log)] = <<"emit">>
                /\ CalledPanels = translate_event(ls_event, layers)
                /\ ls_recv = ls_regs
          /\ ls_result = "Err" => ls_recv = {}

C4_Witness ==
    /\ ls_pc = "done"
    /\ ls_result = "Ok"
    /\ Len(CalledPanels) = 2
    /\ ls_recv = Subs

\* C6: the layer list stays in attach order: push_panel appends and reorders
\* nothing, remove_panel of a present panel removes exactly one entry, one with
\* the panel's id, and leaves the others in their relative order.
C6_ListKeepsAttachOrder ==
    /\ (last.op = "push" /\ last.res = "Ok") => layers = last.before \o <<last.panel>>
    /\ (last.op = "remove" /\ last.res = "Ok" /\ id(last.panel) \in Ids(last.before)) =>
          \E i \in 1..Len(last.before) :
              /\ id(last.before[i]) = id(last.panel)
              /\ layers = RemoveAt(last.before, i)
    /\ (last.op # "none" /\ last.res = "Err") => layers = last.before

C6_Witness ==
    /\ last.op = "remove"
    /\ last.res = "Ok"
    /\ Len(last.before) = 3
    /\ Distinct(last.before)
    /\ last.panel = last.before[2]
    /\ layers = <<last.before[1], last.before[3]>>

\* C7: remove_panel of a panel whose id is not in the list returns Ok, detaches
\* nothing and leaves the list as it was; so does the same call made again.
C7_RemoveAbsentIsNoOp ==
    (last.op = "remove" /\ id(last.panel) \notin Ids(last.before)) =>
        /\ last.res = "Ok"
        /\ layers = last.before
        /\ attached = last.att

C7_Witness ==
    /\ last.op = "remove"
    /\ last.again
    /\ id(last.panel) \notin Ids(last.before)
    /\ last.before # <<>>
    /\ last.res = "Ok"
    /\ layers = last.before

\* The parts of C5, one for each Panel implementation. A stream obtained before
\* on_event(e) observes e once e was sent to it.
C5_StackPart ==
    (ls_pc = "done" /\ ls_result = "Ok") => \A s \in ls_pre : s \in ls_recv

C5_SkinPart ==
    (ls_pc = "done" /\ ls_result = "Ok") =>
        \A s \in skin_pre : ls_event \in Range(skin_queue[s])

C5_ButtonPart ==
    \A t \in Tasks :
        (bt_pc[t] = "done" /\ bt_res[t] = "Ok") => <<"panel", bt_ev[t]>> \in Range(bt_sent[t])

C5_SurfacePart ==
    \A t \in Tasks : (sf_pc[t] = "done" /\ sf_res[t] = "Ok") => sf_sent[t]

\* C5: every Panel implementation (LayerStack, Button, Surface, SimpleButtonSkin)
\* is an event source of the events it has processed: a stream obtained from
\* event_stream() before on_event(e) observes e when on_event(e) returns Ok.
C5_PanelsEmitWhatTheyProcess ==
    /\ C5_StackPart
    /\ C5_ButtonPart
    /\ C5_SurfacePart
    /\ C5_SkinPart

\* The reference machine of C8: Idle -> Pressed on a left press inside the slot,
\* emitting Press; Pressed -> Idle on a left release, emitting Release(in_slot);
\* every other input leaves the state and emits nothing.
RECURSIVE RefRun(_, _)
RefRun(inputs, state) ==
    IF inputs = <<>> THEN <<>>
    ELSE LET e == Head(inputs)
             left == kind(e) = "MouseInput" /\ e[4] = "Left"
         IN  IF left /\ e[3] = "Pressed" /\ e[2] /\ state = "Idle"
             THEN <<Press>> \o RefRun(Tail(inputs), "Pressed")
             ELSE IF left /\ e[3] = "Released" /\ state = "Pressed"
             THEN <<Release(e[2])>> \o RefRun(Tail(inputs), "Idle")
             ELSE RefRun(Tail(inputs), state)

ButtonSent == SelectSeq(bt_out, LAMBDA x : x[1] = "button")
ButtonEmitted == [i \in 1..Len(ButtonSent) |-> ButtonSent[i][2]]
BtAllReturned == \A t \in Tasks : bt_pc[t] \in {"idle", "done"}
BtOneAfterAnother == BtAllReturned /\ ~bt_overlap /\ ~bt_skin_err

\* C8: for every sequence of left-button pointer events delivered one after
\* another to a Button whose skin never fails, the ButtonEvents emitted are those
\* of the reference machine.
C8_ButtonRefinesReference ==
    (BtOneAfterAnother /\ Range(bt_inputs) \subseteq LeftEvents) =>
        ButtonEmitted = RefRun(bt_inputs, "Idle")

\* The sequences C8 lists, which the Button does emit as listed.
C8_ListedSequences ==
    BtOneAfterAnother =>
        /\ bt_inputs = <<MouseInput(TRUE, "Pressed", "Left"), MouseInput(TRUE, "Released", "Left")>>
              => ButtonEmitted = <<Press, Release(TRUE)>>
        /\ bt_inputs = <<MouseInput(TRUE, "Pressed", "Left"), MouseInput(FALSE, "Released", "Left")>>
              => ButtonEmitted = <<Press, Release(FALSE)>>
        /\ (\E in \in BOOLEAN : bt_inputs = <<MouseInput(in, "Released", "Left")>>)
              => ButtonEmitted = <<>>
        /\ (\E in \in BOOLEAN : bt_inputs = <<MouseInput(FALSE, "Pressed", "Left"),
                                             MouseInput(in, "Released", "Left")>>)
              => ButtonEmitted = <<>>

\* Where the Button leaves the reference machine: a press inside the slot while
\* Pressed. On every other sequence the two agree.
PressWhilePressed(inputs) ==
    \E i \in 1..Len(inputs) :
        /\ inputs[i] = MouseInput(TRUE, "Pressed", "Left")
        /\ RefRun(SubSeq(inputs, 1, i - 1), "Idle") # <<>>
        /\ RefRun(SubSeq(inputs, 1, i - 1), "Idle")[Len(RefRun(SubSeq(inputs, 1, i - 1), "Idle"))] = Press

C8_AgreesButForSecondPress ==
    (BtOneAfterAnother /\ Range(bt_inputs) \subseteq LeftEvents /\ ~PressWhilePressed(bt_inputs)) =>
        ButtonEmitted = RefRun(bt_inputs, "Idle")

SfAllReturned == \A t \in Tasks : sf_pc[t] \in {"idle", "done"}
LastOps(n) == SubSeq(sf_ops, Len(sf_ops) - n + 1, Len(sf_ops))
LastCalls(n) == SubSeq(sf_hist, Len(sf_hist) - n + 1, Len(sf_hist))

C10_AtMostOnePendingNewest ==
    /\ Len(sf_queue) <= 1
    /\ (SfAllReturned /\ sf_last_clear # 0) => sf_queue = <<Redraw(sf_last_clear)>>

\* What holds of C10 when the calls come one after another.
C10_OneAfterAnother ==
    ~sf_overlap =>
        /\ Len(sf_queue) <= 1
        /\ (SfAllReturned /\ sf_last_clear # 0) => sf_queue = <<Redraw(sf_last_clear)>>

C11_GoneAfterDrop ==
    /\ kp_alive => \A t \in Tasks : tg_res[t] # <<"ActorGone">> /\ ~tg_after[t]
    /\ ~kp_alive => (kp_color = 0 /\ kp_size = 0)
    /\ \A t \in Tasks :
          /\ tg_pc[t] = "done" =>
                (tg_after[t] <=> tg_res[t] = <<"ActorGone">>)
          /\ (tg_pc[t] = "done" /\ tg_after[t]) => ~tg_ran[t]
          /\ (tg_pc[t] = "done" /\ t \in kp_pending) => tg_after[t]

\* C11: once the keeper is destroyed, every call through a tag, pending at the
\* destruction or made after it, completes with the cell-gone error: its closure
\* never runs on the value, and the call does not wait forever.
C11_TagAfterDropFails ==
    /\ []C11_GoneAfterDrop
    /\ \A t \in Tasks : (tg_pc[t] = "pending" /\ ~kp_alive) ~> (tg_pc[t] = "done")

C11_Witness ==
    /\ ~kp_alive
    /\ kp_pending = {1}
    /\ \A t \in {1, 2} : tg_pc[t] = "done" /\ tg_after[t] /\ tg_res[t] = <<"ActorGone">>
    /\ tg_op[1][1] = "set_color"
    /\ tg_op[2][1] = "color"

C13_TeardownDetachesAll ==
    ls_pc = "dropped" => \A i \in 1..Len(last.before) : last.before[i] \notin attached
\* What holds of the ids: a live panel's id is the one minted at its construction,
\* live panels have different ids, and remove_panel's lookup finds the panel it
\* was given.
C14_LiveIdsDistinct ==
    /\ \A p \in Panels : Live(p) => <<p, id(p)>> \in pn_minted
    /\ \A x, y \in pn_minted : x[1] = y[1] => x = y
    /\ \A p, q \in Panels : (Live(p) /\ Live(q) /\ p # q) => id(p) # id(q)
    /\ \A p \in Panels : (Live(p) /\ position(layers, p) # 0) => layers[position(layers, p)] = p

\* C14: id() of a panel is the same for the panel's whole lifetime, and no two
\* panels ever constructed have equal ids, also when one was constructed after the
\* other was destroyed; so remove_panel's lookup matches only the panel passed.
C14_IdsNeverReused ==
    /\ C14_LiveIdsDistinct
    /\ \A x, y \in pn_minted : x[1] # y[1] => x[2] # y[2]
C15_SendToNobody ==
    /\ (ls_pc = "done" /\ ~ResizeFailed /\ ~LayerFailed) => ls_result = "Ok"
    /\ (ls_pc = "done" /\ ls_result = "Ok" /\ ls_regs = {}) =>
          /\ ls_recv = {}
          /\ \A s \in Subs \ ls_streams : ls_queue[s] = <<>>

C16_FailureLeavesList ==
    (last.op \in {"push", "remove"} /\ last.res = "Err") =>
        /\ layers = last.before
        /\ last.op = "remove" =>
              /\ position(layers, last.panel) # 0
              /\ position(layers, last.panel) = position(last.before, last.panel)

C16_Witness ==
    /\ last.op = "remove"
    /\ last.res = "Err"
    /\ Len(last.before) = 3
    /\ Distinct(last.before)
    /\ last.panel = last.before[2]
    /\ layers = last.before
\* C17: Button.on_event first gives the PanelEvent to the skin, then sends it on
\* its PanelEvent stream, and only then makes the press or release transition:
\* the call's PanelEvent is sent before its ButtonEvent, and when the skin's
\* PanelEvent handler fails the call sends nothing and does not write `pressed`.
C17_SkinThenPanelThenTransition ==
    \A t \in Tasks :
        /\ bt_sent[t] \in {<<>>, <<<<"panel", bt_ev[t]>>>>,
                            <<<<"panel", bt_ev[t]>>, <<"button", bt_be[t]>>>>}
        /\ bt_pc[t] \in {"enter", "skin"} => (bt_sent[t] = <<>> /\ ~bt_wrote[t])
        /\ bt_wrote[t] => (bt_sent[t] # <<>> /\ bt_be[t] # NoButtonEvent)
        /\ bt_fail[t] = "panel" =>
              /\ bt_pc[t] = "done" /\ bt_res[t] = "Err"
              /\ bt_sent[t] = <<>>
              /\ ~bt_wrote[t]
        /\ (bt_pc[t] = "done" /\ bt_res[t] = "Ok") => bt_sent[t] # <<>>

C17_Witness ==
    /\ bt_pc[1] = "done" /\ bt_res[1] = "Ok"
    /\ bt_sent[1] = <<<<"panel", MouseInput(TRUE, "Released", "Left")>>, <<"button", Release(TRUE)>>>>
    /\ bt_pc[2] = "done" /\ bt_fail[2] = "panel"
    /\ bt_sent[2] = <<>>
    /\ ~bt_pressed
Presses == Len(SelectSeq(ButtonEmitted, LAMBDA b : b = Press))
Releases == Len(SelectSeq(ButtonEmitted, LAMBDA b : b[1] = "Release"))

\* C18: under any interleaving of concurrent on_event calls (the skin never
\* failing) a release is acted on only while the button is Pressed: the Releases
\* emitted never outnumber the Presses emitted.
C18_ReleasesWithinPresses ==
    ~bt_skin_err => Releases <= Presses

\* What holds of C18 when the calls come one after another.
C18_OneAfterAnother ==
    (~bt_skin_err /\ ~bt_overlap) => Releases <= Presses
RECURSIVE Alternates(_, _)
Alternates(s, expect) ==
    IF s = <<>> THEN TRUE
    ELSE IF expect = "Press"
         THEN Head(s) = Press /\ Alternates(Tail(s), "Release")
         ELSE Head(s)[1] = "Release" /\ Alternates(Tail(s), "Press")

\* C19: for pointer events delivered one after another (the skin never failing)
\* the ButtonEvents emitted alternate Press, Release, Press, ... starting with
\* Press: a press inside the slot while Pressed emits no second Press.
C19_PressReleaseAlternate ==
    (~bt_overlap /\ ~bt_skin_err) => Alternates(ButtonEmitted, "Press")

\* What holds of C19: a Release is never first and never follows a Release.
C19_NoReleaseWithoutPress ==
    (~bt_overlap /\ ~bt_skin_err) =>
        \A i \in 1..Len(ButtonEmitted) :
            ButtonEmitted[i][1] = "Release" => (i > 1 /\ ButtonEmitted[i - 1] = Press)
\* A call that waits for the core lock.
BtWantsLock(u) == bt_pc[u] \in {"enter", "press_lock", "check", "release_lock"}

\* A task holds the write lock and its skin's handler waits for a call that
\* waits for the lock.
BtSelfDeadlock ==
    \E t \in Tasks :
        /\ bt_writer = t
        /\ bt_waits[t] # 0
        /\ BtWantsLock(bt_waits[t])

\* C20: the Button does not hold its core lock while a transition awaits the
\* skin's ButtonEvent handler or the send of the ButtonEvent, so another on_event
\* call, of another task or made by that handler, can take the lock, and
\* on_event does not deadlock on its own lock.
C20_NoLockWhileAwaiting ==
    /\ \A t \in Tasks : bt_pc[t] \in {"core_skin", "core_sent"} => bt_writer = 0
    /\ ~BtSelfDeadlock

\* The deadlock alone.
C20_NoSelfDeadlock == ~BtSelfDeadlock

\* What holds of C21: a panel among the container's children is in the layer list.
C21_AttachedAreListed ==
    ls_pc # "dropped" => \A p \in attached : position(layers, p) # 0

\* C21: after any sequence of successful push_panel and remove_panel calls, the
\* same panel pushed more than once included, a panel is a child of the
\* container if and only if its id is in the layer list, no id is in the list
\* twice, and a successful remove_panel(p) leaves no entry for p.
C21_AttachedIffListedOnce ==
    ls_pc # "dropped" =>
        /\ \A p \in Panels : p \in attached <=> position(layers, p) # 0
        /\ \A i, j \in 1..Len(layers) : i # j => id(layers[i]) # id(layers[j])
        /\ (last.op = "remove" /\ last.res = "Ok") => position(layers, last.panel) = 0

\* The emissions from..to by their number, in order.
FromTo(from, to) == [i \in 1..(to - from + 1) |-> from + i - 1]

\* What holds of C22: the handler passes sizes on in emission order, and every
\* emission is passed on, waits in the handler's stream, or was lost.
C22_AppliedInOrderOrLost ==
    /\ \A i, j \in 1..Len(rs_applied) : i < j => rs_applied[i] < rs_applied[j]
    /\ Range(rs_applied) \cup Range(rs_queue) \cup rs_lost = 1..Len(rs_emitted)

\* C22 with the emissions made between the spawn and the handler's first poll
\* counted: none of these reaches the handler.
C22_EveryResizeSinceSpawn ==
    rs_pc \notin {"spawned", "failed"} =>
        /\ rs_applied = FromTo(1, Len(rs_applied))
        /\ (rs_pc = "next" /\ rs_queue = <<>>) => Len(rs_applied) = Len(rs_emitted)

\* C22: while the handler has not failed, the sizes it has passed to set_size
\* are the sizes emitted since it runs, in emission order and none left out,
\* one emitted while set_size was awaited included; and when it waits for the
\* next size with nothing left to read, every such size was passed on and the
\* Background has the last one.
C22_EveryResizeApplied ==
    rs_pc \notin {"spawned", "failed"} =>
        /\ rs_applied = FromTo(rs_early + 1, rs_early + Len(rs_applied))
        /\ (rs_pc = "next" /\ rs_queue = <<>> /\ Len(rs_emitted) > rs_early) =>
              /\ rs_early + Len(rs_applied) = Len(rs_emitted)
              /\ kp_size = rs_emitted[Len(rs_emitted)]

====
